---- MODULE Spec2Model ----
(***************************************************************************)
(* Model of deepchecks' ModelErrorAnalysis check                           *)
(* (deepchecks/tabular/checks/performance/model_error_analysis.py) and of  *)
(* the default tabular suites (deepchecks/tabular/suites/default_suites.py)*)
(*                                                                         *)
(* Three specifications share the module:                                  *)
(*   Spec      - the condition registered by                               *)
(*               add_condition_segments_performance_relative_difference_   *)
(*               not_greater_than, run on check-result values;             *)
(*   SpecRun   - ModelErrorAnalysis.__init__ and the stages of run_logic;  *)
(*   SpecSuite - the suite factory functions.                              *)
(***************************************************************************)
EXTENDS Integers, Sequences, FiniteSets, TLC

VARIABLES
    \* ---- condition evaluator ----
    result,            \* the check-result value handed to the condition
    score_type,        \* arithmetic type of the segment scores
    conditions,        \* conditions registered on the check (add_condition)
    cond_out,          \* outcome of the last run of the condition
    \* ---- constructor and run_logic ----
    self,              \* the ModelErrorAnalysis object (or None / ctor error)
    context,           \* the Context handed to run_logic
    pc,                \* position inside run_logic
    locals,            \* local variables of run_logic
    trace,             \* stages executed so far, in order
    ret,               \* what run_logic returned / raised
    \* ---- suites ----
    log,               \* warnings emitted and suites built, in order
    returned,          \* suites returned so far, in call order
    next_id            \* allocator of object identities

condVars == <<result, score_type, conditions, cond_out>>
runVars == <<self, context, pc, locals, trace, ret>>
suiteVars == <<log, returned, next_id>>
vars == <<result, score_type, conditions, cond_out,
          self, context, pc, locals, trace, ret,
          log, returned, next_id>>

None == "None"

(***************************************************************************)
(* Bounds                                                                  *)
(***************************************************************************)
MaxScore == 2          \* segment scores range over -MaxScore..MaxScore

(***************************************************************************)
(* Generic helpers                                                         *)
(***************************************************************************)
Abs(x) == IF x < 0 THEN -x ELSE x

\* Python's builtin max of two numbers
Max(a, b) == IF b > a THEN b ELSE a

Range(s) == {s[i] : i \in 1..Len(s)}

\* a rational number num/den; den = 0 stands for a division by zero
Ratio(n, d) == [num |-> n, den |-> d]

\* r > t for ratios with positive denominators
RatioGt(r, t) == r.num * t.den > t.num * r.den

(***************************************************************************)
(* Text: a str is the sequence of its code points                          *)
(***************************************************************************)
ChPercent == 37
ChDot == 46
ChZero == 48

RECURSIVE DecimalDigits(_)
\* str(n) for a natural number n
DecimalDigits(n) ==
    IF n < 10 THEN <<ChZero + n>>
    ELSE Append(DecimalDigits(n \div 10), ChZero + (n % 10))

RECURSIVE StrLess(_, _)
\* Python's a < b on str: lexicographic on code points, a proper prefix first
StrLess(a, b) ==
    IF b = <<>> THEN FALSE
    ELSE IF a = <<>> THEN TRUE
    ELSE IF a[1] # b[1] THEN a[1] < b[1]
    ELSE StrLess(Tail(a), Tail(b))

\* format_percent(ratio) for a finite ratio >= 0: whole ratios print as
\* "<n>%", the others with two decimals
format_percent(r) ==
    IF r.num % r.den = 0
    THEN DecimalDigits((r.num \div r.den) * 100) \o <<ChPercent>>
    ELSE LET h == (2 * r.num * 10000 + r.den) \div (2 * r.den)
             frac == h % 100
         IN DecimalDigits(h \div 100) \o <<ChDot>>
            \o <<ChZero + (frac \div 10), ChZero + (frac % 10)>>
            \o <<ChPercent>>

(***************************************************************************)
(* Check-result values                                                     *)
(***************************************************************************)
\* the features a feature_segments mapping can hold, in insertion order
FeatureNames == <<"f1", "f2">>
Scores == (-MaxScore)..MaxScore
ScoreTypes == {"float", "numpy.float64"}

Segment(s) == [score |-> s]

\* the per-feature value: a dict holding 'segment1' and, when a second
\* segment was found, 'segment2' (the score of a lone segment is never read)
SegmentDicts ==
    {[k \in {"segment1"} |-> Segment(MaxScore)]}
    \cup {[k \in {"segment1", "segment2"} |->
              IF k = "segment1" THEN Segment(s[1]) ELSE Segment(s[2])]
          : s \in Scores \X Scores}

\* len(d) of a dict
DictLen(d) == Cardinality(DOMAIN d)

\* feature_segments keeps insertion order: a sequence of (feature, dict)
FeatureSegments ==
    UNION {{[i \in 1..n |-> [feature |-> FeatureNames[i], segments |-> f[i]]]
            : f \in [1..n -> SegmentDicts]} : n \in 0..Len(FeatureNames)}

Results == {[scorer_name |-> "Accuracy", feature_segments |-> fs]
            : fs \in FeatureSegments}

\* thresholds handed to the condition; 1/20 is the default 0.05
DefaultMaxRatioChange == Ratio(1, 20)
Thresholds == {DefaultMaxRatioChange, Ratio(3, 4), Ratio(2, 1)}

(***************************************************************************)
(* The condition of                                                        *)
(* add_condition_segments_performance_relative_difference_not_greater_than *)
(***************************************************************************)
\* performance_diff of one feature with two segments
performance_diff(segs) ==
    LET s1 == segs["segment1"].score
        s2 == segs["segment2"].score
    IN Ratio(Abs(s1 - s2), Abs(Max(s1, s2)))

\* What the division and the comparison of one feature come to:
\*   "raise" - the evaluation raises,
\*   "fail"  - performance_diff > max_ratio_change,
\*   "ok"    - otherwise.
\* A zero divisor raises ZeroDivisionError on Python floats; on
\* numpy.float64 it yields nan (0/0, which compares False) or inf (which
\* compares True and cannot be formatted).
FeatureVerdict(segs, max_ratio_change, st) ==
    LET d == performance_diff(segs)
    IN IF d.den = 0
       THEN IF st = "float" THEN "raise"
            ELSE IF d.num = 0 THEN "ok" ELSE "raise"
       ELSE IF RatioGt(d, max_ratio_change) THEN "fail" ELSE "ok"

\* the state of the loop over the features: the fails dict in insertion
\* order, the ratios computed so far, and whether an iteration raised
LoopStart == [raised |-> FALSE, fails |-> <<>>, compared |-> <<>>]

RECURSIVE CollectFails(_, _, _, _)
\* the loop over feature_res.keys(); it stops at the first raise
CollectFails(feature_res, max_ratio_change, st, acc) ==
    IF feature_res = <<>> THEN acc
    ELSE LET item == Head(feature_res)
             rest == Tail(feature_res)
         IN IF DictLen(item.segments) < 2
            THEN CollectFails(rest, max_ratio_change, st, acc)
            ELSE LET d == performance_diff(item.segments)
                     v == FeatureVerdict(item.segments, max_ratio_change, st)
                     seen == Append(acc.compared, <<item.feature, d>>)
                 IN IF v = "raise"
                    THEN [acc EXCEPT !.raised = TRUE, !.compared = seen]
                    ELSE IF v = "fail"
                    THEN CollectFails(rest, max_ratio_change, st,
                             [acc EXCEPT !.compared = seen,
                                         !.fails = Append(@,
                                             <<item.feature, format_percent(d)>>)])
                    ELSE CollectFails(rest, max_ratio_change, st,
                             [acc EXCEPT !.compared = seen])

\* the sort key of sorted(fails.items(), key=lambda item: item[1])
SortKeyLess(a, b) == StrLess(a[2], b[2])

RECURSIVE InsertSorted(_, _)
\* stable insertion: x goes after every element that is not greater
InsertSorted(sorted, x) ==
    IF sorted = <<>> THEN <<x>>
    ELSE IF SortKeyLess(x, Head(sorted)) THEN <<x>> \o sorted
    ELSE <<Head(sorted)>> \o InsertSorted(Tail(sorted), x)

RECURSIVE SortedFails(_)
\* dict(sorted(fails.items(), key=...)): a stable ascending sort
SortedFails(items) ==
    IF items = <<>> THEN <<>>
    ELSE InsertSorted(SortedFails(SubSeq(items, 1, Len(items) - 1)),
                      items[Len(items)])

NoOutcome ==
    [status |-> "none", category |-> None, sorted_fails |-> <<>>,
     compared |-> <<>>, max_ratio_change |-> None]

\* condition(result): the ConditionResult returned, or the raise
condition(res, max_ratio_change, st) ==
    LET loop == CollectFails(res.feature_segments, max_ratio_change, st, LoopStart)
    IN IF loop.raised
       THEN [status |-> "raised", category |-> None, sorted_fails |-> <<>>,
             compared |-> loop.compared, max_ratio_change |-> max_ratio_change]
       ELSE IF loop.fails # <<>>
       THEN [status |-> "returned", category |-> "WARN",
             sorted_fails |-> SortedFails(loop.fails),
             compared |-> loop.compared, max_ratio_change |-> max_ratio_change]
       ELSE [status |-> "returned", category |-> "PASS", sorted_fails |-> <<>>,
             compared |-> loop.compared, max_ratio_change |-> max_ratio_change]

\* add_condition_segments_performance_relative_difference_not_greater_than:
\* the condition entry self.add_condition registers
NewCondition(max_ratio_change) ==
    [name |-> format_percent(max_ratio_change),
     max_ratio_change |-> max_ratio_change]

(***************************************************************************)
(* ModelErrorAnalysis.__init__                                             *)
(***************************************************************************)
\* Python values that can be passed as alternative_scorer.  A value is
\* [type, items]; an item is [kind, v]: a str, a callable or a
\* (name, callable) pair.  The items of a dict are the pairs of its entries.
Str(x) == [kind |-> "str", v |-> <<x>>]
Callable(x) == [kind |-> "callable", v |-> <<x>>]
Pair(n, f) == [kind |-> "pair", v |-> <<n, f>>]

ScorerNames == <<"accuracy", "f1", "recall", "precision">>
ScorerPairs(k) == [i \in 1..k |-> Pair(ScorerNames[i], "fn")]

MaxScorers == 3        \* entries of an alternative_scorer collection

NoArg == [type |-> "NoneType", items |-> <<>>]
AlternativeScorers ==
    {NoArg}
    \cup {[type |-> "tuple", items |-> <<Str("accuracy"), Callable("fn")>>]}
    \cup {[type |-> t, items |-> ScorerPairs(k)]
          : t \in {"dict", "list"}, k \in 0..MaxScorers}

\* bool(x): None and empty collections are falsy
Truthy(x) == x.type # "NoneType" /\ x.items # <<>>

\* iter(x): a dict yields its keys, a tuple or list its elements
Iterate(x) ==
    IF x.type = "dict"
    THEN [i \in 1..Len(x.items) |-> Str(x.items[i].v[1])]
    ELSE x.items

\* the number of scorers an alternative_scorer value supplies
ScorersSupplied(x) ==
    IF x.type = "tuple" THEN 1 ELSE Len(x.items)

NoUserScorer == [none |-> TRUE, raised |-> FALSE, entries |-> <<>>]

\* dict([alternative_scorer]) if alternative_scorer else None:
\* dict() of a one-element list takes that element as a (key, value)
\* sequence and raises ValueError unless it yields exactly two items
user_scorer_of(alternative_scorer) ==
    IF ~Truthy(alternative_scorer) THEN NoUserScorer
    ELSE LET it == Iterate(alternative_scorer)
         IN IF Len(it) # 2
            THEN [none |-> FALSE, raised |-> TRUE, entries |-> <<>>]
            ELSE [none |-> FALSE, raised |-> FALSE,
                  entries |-> <<[key |-> it[1], value |-> it[2]]>>]

DefaultNSamples == 50000
DefaultMinErrorModelScore == 50      \* 0.5, in percent
DefaultMinFeatureContribution == 15  \* 0.15, in percent
DefaultMaxFeaturesToShow == 3

\* the constructor calls considered: every alternative_scorer with the
\* default n_samples, and a sample size of one row
ConstructorArgs ==
    {[alternative_scorer |-> a, n_samples |-> DefaultNSamples]
        : a \in AlternativeScorers}
    \cup {[alternative_scorer |-> NoArg, n_samples |-> 1]}

Unbuilt ==
    [state |-> "unbuilt", user_scorer |-> NoUserScorer,
     alternative_scorer |-> NoArg,
     n_samples |-> DefaultNSamples,
     min_error_model_score |-> DefaultMinErrorModelScore,
     min_feature_contribution |-> DefaultMinFeatureContribution,
     max_features_to_show |-> DefaultMaxFeaturesToShow]

\* __init__: the object, or the state of a constructor that raised
init_object(alternative_scorer, n_samples) ==
    LET us == user_scorer_of(alternative_scorer)
    IN [Unbuilt EXCEPT
          !.state = IF us.raised THEN "ctor_error" ELSE "built",
          !.alternative_scorer = alternative_scorer,
          !.user_scorer = us,
          !.n_samples = n_samples]

(***************************************************************************)
(* Datasets and the Context                                                *)
(***************************************************************************)
MaxRows == 2           \* rows of a dataset

NA == "NA"
LabelValues == {"a", "b"}
TaskTypes == {"regression", "classification"}
ModelFeatures == <<"f1", "f2">>

LabelRank(l) == IF l = NA THEN 0 ELSE IF l = "a" THEN 1 ELSE 2

\* label columns of up to MaxRows rows.  The rows of a dataset are
\* exchangeable, so one column stands for all its reorderings
LabelColumns ==
    UNION {{l \in [1..n -> LabelValues \cup {NA}] :
               \A i \in 1..(n - 1) : LabelRank(l[i]) <= LabelRank(l[i + 1])}
           : n \in 0..MaxRows}

\* a dataset as handed to the Context: whether it has a label column, and
\* the label of every row (NA: missing)
RawDatasets ==
    {[has_label |-> TRUE, labels |-> l] : l \in LabelColumns}
    \cup {[has_label |-> FALSE, labels |-> [i \in 1..n |-> NA]]
        : n \in 0..MaxRows}

Contexts ==
    {[train |-> tr, test |-> te, task_type |-> tt]
        : tr \in RawDatasets, te \in RawDatasets, tt \in TaskTypes}

NoContext ==
    [train |-> [has_label |-> FALSE, labels |-> <<>>],
     test |-> [has_label |-> FALSE, labels |-> <<>>],
     task_type |-> "regression"]

Min(a, b) == IF a < b THEN a ELSE b

\* the rows of ds with index in keep, as (id, label) records in index order
RowsOf(ds, keep) ==
    LET idx == SelectSeq([i \in 1..Len(ds.labels) |-> i], LAMBDA i : i \in keep)
    IN [j \in 1..Len(idx) |-> [id |-> idx[j], label |-> ds.labels[idx[j]]]]

\* Dataset.sample(n_samples, random_state, drop_na_label): every dataset the
\* call can return.  Rows with a missing label are dropped first when
\* drop_na_label is set and the dataset has a label; then
\* min(n_samples, rows left) rows are drawn without replacement.
sample(ds, n_samples, drop_na_label) ==
    LET eligible == {i \in 1..Len(ds.labels) :
                        (drop_na_label /\ ds.has_label) => ds.labels[i] # NA}
        k == Min(n_samples, Cardinality(eligible))
    IN {[has_label |-> ds.has_label, rows |-> RowsOf(ds, keep)]
        : keep \in {S \in SUBSET eligible : Cardinality(S) = k}}

\* Dataset.classes: the distinct labels present
classes_of(sampled) ==
    {sampled.rows[i].label : i \in 1..Len(sampled.rows)} \ {NA}

(***************************************************************************)
(* run_logic                                                               *)
(***************************************************************************)
\* the statements of run_logic in program order, for a task type
Stages(task_type) ==
    <<"assert_label", "get_single_scorer", "sample_train", "sample_test">>
    \o (IF task_type = "regression" THEN <<>> ELSE <<"fit_label_encoder">>)
    \o <<"score_train", "score_test", "model_error_contribution",
         "error_model_display", "check_result">>

IndexOf(seq, x) == CHOOSE i \in 1..Len(seq) : seq[i] = x

\* StageAfter with the two scoring statements exchanged
StageAfterSwapped(stage, task_type) ==
    LET order == Stages(task_type)
        swapped == [i \in 1..Len(order) |->
                       IF order[i] = "score_train" THEN "score_test"
                       ELSE IF order[i] = "score_test" THEN "score_train"
                       ELSE order[i]]
        i == IndexOf(swapped, stage)
    IN IF i = Len(swapped) THEN "done" ELSE swapped[i + 1]

\* where control goes when a stage completes
StageAfter(stage, task_type) ==
    LET order == Stages(task_type)
        i == IndexOf(order, stage)
    IN IF i = Len(order) THEN "done" ELSE order[i + 1]

\* the call of line 116: train_dataset.sample(..., drop_na_label=True)
sample_train(slf, ctx) == sample(ctx.train, slf.n_samples, TRUE)

\* sample_test without drop_na_label
sample_test_keep_na(slf, ctx) == sample(ctx.test, slf.n_samples, FALSE)

\* the call of line 117: test_dataset.sample(..., drop_na_label=True)
sample_test(slf, ctx) == sample(ctx.test, slf.n_samples, TRUE)

\* Dataset.assert_label(): raises when the dataset has no label
assert_label_raises(ds) == ~ds.has_label

\* context.get_single_scorer(user_scorer): the default scorer for None; a
\* mapping must give a scorer (a callable or a scorer name) under a str name
get_single_scorer_raises(user_scorer) ==
    ~user_scorer.none
    /\ \E i \in 1..Len(user_scorer.entries) :
          \/ user_scorer.entries[i].key.kind # "str"
          \/ user_scorer.entries[i].value.kind \notin {"str", "callable"}

\* scoring_func(dataset) raises: there is no label column to read, or, for
\* classification, le.transform meets a label that le.fit did not see
scoring_func_raises(sampled, task_type, le_classes) ==
    \/ ~sampled.has_label
    \/ /\ task_type # "regression"
       /\ \E i \in 1..Len(sampled.rows) : sampled.rows[i].label \notin le_classes

\* scoring_func(dataset): one per-sample error for every row of the dataset
scoring_func(sampled) ==
    [i \in 1..Len(sampled.rows) |->
        [id |-> sampled.rows[i].id,
         error |-> IF sampled.rows[i].label = NA THEN "nan" ELSE "finite"]]

\* fit qualities (r^2, in percent) the error model can reach
FitScores == {25, 75}

\* feature importances the error model can report, in percent
Importances ==
    {<<[feature |-> "f1", importance |-> 10], [feature |-> "f2", importance |-> 90]>>,
     <<[feature |-> "f1", importance |-> 10], [feature |-> "f2", importance |-> 10]>>}

\* model_error_contribution: the importances are empty when the held-out
\* fit quality is below min_error_model_score
model_error_contribution(fit_score, importances, min_error_model_score) ==
    IF fit_score < min_error_model_score THEN <<>> ELSE importances

RECURSIVE InsertByImportance(_, _)
InsertByImportance(sorted, x) ==
    IF sorted = <<>> THEN <<x>>
    ELSE IF x.importance > Head(sorted).importance THEN <<x>> \o sorted
    ELSE <<Head(sorted)>> \o InsertByImportance(Tail(sorted), x)

RECURSIVE ByImportance(_)
ByImportance(fi) ==
    IF fi = <<>> THEN <<>>
    ELSE InsertByImportance(ByImportance(SubSeq(fi, 1, Len(fi) - 1)), fi[Len(fi)])

\* the features error_model_display reports: those whose importance exceeds
\* min_feature_contribution, by descending importance, at most
\* max_features_to_show of them
selected_features(error_fi, max_features_to_show, min_feature_contribution) ==
    LET above == SelectSeq(ByImportance(error_fi),
                           LAMBDA e : e.importance > min_feature_contribution)
    IN SubSeq(above, 1, Min(max_features_to_show, Len(above)))

\* error_model_display: one display block and one feature_segments entry
\* for every selected feature; a feature in two_segments got two segments
error_model_display(selected, two_segments) ==
    [display |-> [i \in 1..Len(selected) |-> <<"plot", selected[i].feature>>],
     value |-> [i \in 1..Len(selected) |->
                  [feature |-> selected[i].feature,
                   segments |-> IF selected[i].feature \in two_segments
                                THEN 2 ELSE 1]]]

Headnote == <<"headnote">>

NoneDisplay == [none |-> TRUE, items |-> <<>>]

\* final_display without the guard on an empty display
final_display_unguarded(display) ==
    [none |-> FALSE, items |-> <<Headnote>> \o display]

\* display = [headnote] + display if display else None
final_display(display) ==
    IF display # <<>>
    THEN [none |-> FALSE, items |-> <<Headnote>> \o display]
    ELSE NoneDisplay

NoScores == <<>>
NoSample == [has_label |-> FALSE, rows |-> <<>>]

FreshLocals ==
    [train_dataset |-> NoSample, test_dataset |-> NoSample,
     le_classes |-> {},
     train_scores |-> NoScores, test_scores |-> NoScores,
     fit_score |-> 0, error_fi |-> <<>>,
     display |-> <<>>, value |-> <<>>]

NoReturn == [kind |-> "none", error |-> None, at |-> None,
             value |-> <<>>, display |-> NoneDisplay]

\* the run ends with an exception raised by a stage
Raised(error, stage) ==
    [kind |-> "error", error |-> error, at |-> stage,
     value |-> <<>>, display |-> NoneDisplay]

\* return CheckResult(value, display=display)
CheckResult(value, display) ==
    [kind |-> "CheckResult", error |-> None, at |-> None,
     value |-> value, display |-> display]

(***************************************************************************)
(* Initial values                                                          *)
(***************************************************************************)
NoResult == [scorer_name |-> "Accuracy", feature_segments |-> <<>>]

CondIdle ==
    /\ result = NoResult
    /\ score_type = "float"
    /\ conditions = <<>>
    /\ cond_out = NoOutcome

RunIdle ==
    /\ self = Unbuilt
    /\ context = NoContext
    /\ pc = "idle"
    /\ locals = FreshLocals
    /\ trace = <<>>
    /\ ret = NoReturn

SuiteIdle ==
    /\ log = <<>>
    /\ returned = <<>>
    /\ next_id = 1

(***************************************************************************)
(* Spec: a check with its condition, run on check-result values            *)
(***************************************************************************)
MaxConditions == 1     \* conditions registered on one check

Init ==
    /\ result \in Results
    /\ score_type \in ScoreTypes
    /\ conditions = <<>>
    /\ cond_out = NoOutcome
    /\ RunIdle
    /\ SuiteIdle

\* check.add_condition_segments_performance_relative_difference_not_greater_than(t)
AddCondition(max_ratio_change) ==
    /\ Len(conditions) < MaxConditions
    /\ conditions' = Append(conditions, NewCondition(max_ratio_change))
    /\ UNCHANGED <<result, score_type, cond_out>>
    /\ UNCHANGED runVars
    /\ UNCHANGED suiteVars

\* the i-th registered condition is run on the result value
RunCondition(i) ==
    /\ i \in 1..Len(conditions)
    /\ cond_out' = condition(result, conditions[i].max_ratio_change, score_type)
    /\ UNCHANGED <<result, score_type, conditions>>
    /\ UNCHANGED runVars
    /\ UNCHANGED suiteVars

Next ==
    \/ \E t \in Thresholds : AddCondition(t)
    \/ \E i \in 1..MaxConditions : RunCondition(i)

Spec == Init /\ [][Next]_vars

(***************************************************************************)
(* SpecRun: construction of the check and one run of run_logic             *)
(***************************************************************************)
InitRun ==
    /\ CondIdle
    /\ RunIdle
    /\ SuiteIdle

\* ModelErrorAnalysis(alternative_scorer=..., n_samples=...)
Construct(alternative_scorer, n_samples) ==
    /\ self.state = "unbuilt"
    /\ self' = init_object(alternative_scorer, n_samples)
    /\ UNCHANGED <<context, pc, locals, trace, ret>>
    /\ UNCHANGED condVars
    /\ UNCHANGED suiteVars

\* check.run_logic(context) is entered
RunLogic(ctx) ==
    /\ self.state = "built"
    /\ pc = "idle"
    /\ context' = ctx
    /\ pc' = "assert_label"
    /\ UNCHANGED <<self, locals, trace, ret>>
    /\ UNCHANGED condVars
    /\ UNCHANGED suiteVars

\* a stage completes and control moves on
Completes(stage) ==
    /\ trace' = Append(trace, stage)
    /\ pc' = StageAfter(stage, context.task_type)
    /\ ret' = ret

\* a stage raises: the exception leaves run_logic
Raises(stage, error) ==
    /\ trace' = Append(trace, stage)
    /\ pc' = "done"
    /\ ret' = Raised(error, stage)
    /\ locals' = locals

\* train_dataset.assert_label()
AssertLabel ==
    /\ pc = "assert_label"
    /\ IF assert_label_raises(context.train)
       THEN Raises("assert_label", "DataError")
       ELSE Completes("assert_label") /\ locals' = locals
    /\ UNCHANGED <<self, context>>
    /\ UNCHANGED condVars
    /\ UNCHANGED suiteVars

\* scorer = context.get_single_scorer(self.user_scorer)
GetSingleScorer ==
    /\ pc = "get_single_scorer"
    /\ IF get_single_scorer_raises(self.user_scorer)
       THEN Raises("get_single_scorer", "ValueError")
       ELSE Completes("get_single_scorer") /\ locals' = locals
    /\ UNCHANGED <<self, context>>
    /\ UNCHANGED condVars
    /\ UNCHANGED suiteVars

\* train_dataset = train_dataset.sample(...)
SampleTrain ==
    /\ pc = "sample_train"
    /\ \E d \in sample_train(self, context) :
          locals' = [locals EXCEPT !.train_dataset = d]
    /\ Completes("sample_train")
    /\ UNCHANGED <<self, context>>
    /\ UNCHANGED condVars
    /\ UNCHANGED suiteVars

\* test_dataset = test_dataset.sample(...)
SampleTest ==
    /\ pc = "sample_test"
    /\ \E d \in sample_test(self, context) :
          locals' = [locals EXCEPT !.test_dataset = d]
    /\ Completes("sample_test")
    /\ UNCHANGED <<self, context>>
    /\ UNCHANGED condVars
    /\ UNCHANGED suiteVars

\* le = LabelEncoder(); le.fit(train_dataset.classes)
FitLabelEncoder ==
    /\ pc = "fit_label_encoder"
    /\ locals' = [locals EXCEPT !.le_classes = classes_of(locals.train_dataset)]
    /\ Completes("fit_label_encoder")
    /\ UNCHANGED <<self, context>>
    /\ UNCHANGED condVars
    /\ UNCHANGED suiteVars

\* train_scores = scoring_func(train_dataset); the model's prediction call
\* may raise as well
ScoreTrain ==
    /\ pc = "score_train"
    /\ \E model_ok \in BOOLEAN :
          IF scoring_func_raises(locals.train_dataset, context.task_type,
                                 locals.le_classes)
          THEN Raises("score_train", "LabelError")
          ELSE IF ~model_ok
          THEN Raises("score_train", "ModelError")
          ELSE /\ locals' = [locals EXCEPT
                                !.train_scores = scoring_func(locals.train_dataset)]
               /\ Completes("score_train")
    /\ UNCHANGED <<self, context>>
    /\ UNCHANGED condVars
    /\ UNCHANGED suiteVars

\* test_scores = scoring_func(test_dataset)
ScoreTest ==
    /\ pc = "score_test"
    /\ \E model_ok \in BOOLEAN :
          IF scoring_func_raises(locals.test_dataset, context.task_type,
                                 locals.le_classes)
          THEN Raises("score_test", "LabelError")
          ELSE IF ~model_ok
          THEN Raises("score_test", "ModelError")
          ELSE /\ locals' = [locals EXCEPT
                                !.test_scores = scoring_func(locals.test_dataset)]
               /\ Completes("score_test")
    /\ UNCHANGED <<self, context>>
    /\ UNCHANGED condVars
    /\ UNCHANGED suiteVars

\* error_fi, error_model_predicted = model_error_contribution(...); fitting
\* the error model may raise, a low fit quality does not
ModelErrorContribution ==
    /\ pc = "model_error_contribution"
    /\ \E fit_ok \in BOOLEAN, fit_score \in FitScores, importances \in Importances :
          IF ~fit_ok
          THEN Raises("model_error_contribution", "FitError")
          ELSE /\ locals' = [locals EXCEPT
                    !.fit_score = fit_score,
                    !.error_fi = model_error_contribution(
                                    fit_score, importances,
                                    self.min_error_model_score)]
               /\ Completes("model_error_contribution")
    /\ UNCHANGED <<self, context>>
    /\ UNCHANGED condVars
    /\ UNCHANGED suiteVars

\* display, value = error_model_display(...); scoring a segment of a
\* selected feature may raise
ErrorModelDisplay ==
    /\ pc = "error_model_display"
    /\ LET selected == selected_features(locals.error_fi,
                                         self.max_features_to_show,
                                         self.min_feature_contribution)
       IN \E scorer_ok \in BOOLEAN,
             two_segments \in SUBSET {selected[i].feature : i \in 1..Len(selected)} :
             IF ~scorer_ok /\ selected # <<>>
             THEN Raises("error_model_display", "ScorerError")
             ELSE LET out == error_model_display(selected, two_segments)
                  IN /\ locals' = [locals EXCEPT !.display = out.display,
                                                 !.value = out.value]
                     /\ Completes("error_model_display")
    /\ UNCHANGED <<self, context>>
    /\ UNCHANGED condVars
    /\ UNCHANGED suiteVars

\* display = [headnote] + display if display else None
\* return CheckResult(value, display=display)
ReturnCheckResult ==
    /\ pc = "check_result"
    /\ trace' = Append(trace, "check_result")
    /\ pc' = StageAfter("check_result", context.task_type)
    /\ ret' = CheckResult(locals.value, final_display(locals.display))
    /\ UNCHANGED <<self, context, locals>>
    /\ UNCHANGED condVars
    /\ UNCHANGED suiteVars

NextRun ==
    \/ \E args \in ConstructorArgs :
          Construct(args.alternative_scorer, args.n_samples)
    \/ \E ctx \in Contexts : RunLogic(ctx)
    \/ AssertLabel
    \/ GetSingleScorer
    \/ SampleTrain
    \/ SampleTest
    \/ FitLabelEncoder
    \/ ScoreTrain
    \/ ScoreTest
    \/ ModelErrorContribution
    \/ ErrorModelDisplay
    \/ ReturnCheckResult

SpecRun == InitRun /\ [][NextRun]_vars

(***************************************************************************)
(* The default suites                                                      *)
(***************************************************************************)
MaxCalls == 2          \* calls of suite functions in one behaviour

\* keyword-argument sets passed to a suite function
Kwargs == {<<>>, <<<<"n_samples", 10>>>>}

\* a positional argument of Suite(...): the check class that is
\* instantiated and the add_condition_* methods chained on the instance
Entry(cls, conds) == [cls |-> cls, conds |-> conds]

DataIntegrityChecks ==
    <<Entry("IsSingleValue", <<"not_single_value">>),
      Entry("SpecialCharacters", <<"ratio_of_special_characters_less_or_equal">>),
      Entry("MixedNulls", <<"different_nulls_less_equal_to">>),
      Entry("MixedDataTypes", <<"rare_type_ratio_not_in_range">>),
      Entry("StringMismatch", <<"no_variants">>),
      Entry("DataDuplicates", <<"ratio_less_or_equal">>),
      Entry("StringLengthOutOfBounds", <<"ratio_of_outliers_less_or_equal">>),
      Entry("ConflictingLabels", <<"ratio_of_conflicting_labels_less_or_equal">>),
      Entry("OutlierSampleDetection", <<>>),
      Entry("FeatureLabelCorrelation", <<"feature_pps_less_than">>),
      Entry("IdentifierLabelCorrelation", <<"pps_less_or_equal">>)>>

TrainTestValidationChecks ==
    <<Entry("DatasetsSizeComparison", <<"test_train_size_ratio_greater_than">>),
      Entry("NewLabelTrainTest", <<"new_labels_number_less_or_equal">>),
      Entry("CategoryMismatchTrainTest", <<"new_category_ratio_less_or_equal">>),
      Entry("StringMismatchComparison", <<"no_new_variants">>),
      Entry("DateTrainTestLeakageDuplicates", <<"leakage_ratio_less_or_equal">>),
      Entry("DateTrainTestLeakageOverlap", <<"leakage_ratio_less_or_equal">>),
      Entry("IndexTrainTestLeakage", <<"ratio_less_or_equal">>),
      Entry("TrainTestSamplesMix", <<"duplicates_ratio_less_or_equal">>),
      Entry("FeatureLabelCorrelationChange",
            <<"feature_pps_difference_less_than", "feature_pps_in_train_less_than">>),
      Entry("TrainTestFeatureDrift", <<"drift_score_less_than">>),
      Entry("TrainTestLabelDrift", <<"drift_score_less_than">>),
      Entry("WholeDatasetDrift", <<"overall_drift_value_less_than">>)>>

\* ModelEvaluationChecks with the condition of RocReport left out
ModelEvaluationChecksBareRoc ==
    <<Entry("PerformanceReport", <<"train_test_relative_degradation_not_greater_than">>),
      Entry("RocReport", <<>>),
      Entry("ConfusionMatrixReport", <<>>),
      Entry("TrainTestPredictionDrift", <<"drift_score_less_than">>),
      Entry("SimpleModelComparison", <<"gain_greater_than">>),
      Entry("WeakSegmentsPerformance", <<"segments_relative_performance_greater_than">>),
      Entry("CalibrationScore", <<>>),
      Entry("RegressionSystematicError", <<"systematic_error_ratio_to_rmse_less_than">>),
      Entry("RegressionErrorDistribution", <<"kurtosis_greater_than">>),
      Entry("UnusedFeatures", <<"number_of_high_variance_unused_features_less_or_equal">>),
      Entry("BoostingOverfit", <<"test_score_percent_decline_less_than">>),
      Entry("ModelInferenceTime", <<"inference_time_less_than">>)>>

ModelEvaluationChecks ==
    <<Entry("PerformanceReport", <<"train_test_relative_degradation_not_greater_than">>),
      Entry("RocReport", <<"auc_greater_than">>),
      Entry("ConfusionMatrixReport", <<>>),
      Entry("TrainTestPredictionDrift", <<"drift_score_less_than">>),
      Entry("SimpleModelComparison", <<"gain_greater_than">>),
      Entry("WeakSegmentsPerformance", <<"segments_relative_performance_greater_than">>),
      Entry("CalibrationScore", <<>>),
      Entry("RegressionSystematicError", <<"systematic_error_ratio_to_rmse_less_than">>),
      Entry("RegressionErrorDistribution", <<"kurtosis_greater_than">>),
      Entry("UnusedFeatures", <<"number_of_high_variance_unused_features_less_or_equal">>),
      Entry("BoostingOverfit", <<"test_score_percent_decline_less_than">>),
      Entry("ModelInferenceTime", <<"inference_time_less_than">>)>>

\* Cls(**kwargs).add_condition_a().add_condition_b(): a new check object
\* holding one condition for every chained call
NewCheck(entry, kwargs, id) ==
    [id |-> id, cls |-> entry.cls, kwargs |-> kwargs, conditions |-> entry.conds]

\* Suite(name, *checks): the arguments are evaluated left to right, each a
\* new object
Suite(name, entries, kwargs, first_id) ==
    [name |-> name,
     checks |-> [i \in 1..Len(entries) |-> NewCheck(entries[i], kwargs, first_id + i - 1)]]

\* what a call of a suite function does: the warnings emitted and suites
\* constructed, in order, and the suite returned
Built(suite) ==
    [events |-> <<[event |-> "Suite", what |-> suite.name]>>, suite |-> suite]

DeprecationWarning(fn) == [event |-> "DeprecationWarning", what |-> fn]

data_integrity(kwargs, first_id) ==
    Built(Suite("Data Integrity Suite", DataIntegrityChecks, kwargs, first_id))

\* single_dataset_integrity that does not pass its keyword arguments on
single_dataset_integrity_drops_kwargs(kwargs, first_id) ==
    LET out == data_integrity(<<>>, first_id)
    IN [out EXCEPT !.events = <<DeprecationWarning("single_dataset_integrity")>> \o @]

single_dataset_integrity(kwargs, first_id) ==
    LET out == data_integrity(kwargs, first_id)
    IN [out EXCEPT !.events = <<DeprecationWarning("single_dataset_integrity")>> \o @]

train_test_validation(kwargs, first_id) ==
    Built(Suite("Train Test Validation Suite", TrainTestValidationChecks, kwargs, first_id))

train_test_leakage(kwargs, first_id) ==
    LET out == train_test_validation(kwargs, first_id)
    IN [out EXCEPT !.events = <<DeprecationWarning("train_test_leakage")>> \o @]

model_evaluation(kwargs, first_id) ==
    Built(Suite("Model Evaluation Suite", ModelEvaluationChecks, kwargs, first_id))

\* Suite('Full Suite', model_evaluation(..), train_test_validation(..),
\* data_integrity(..)): a suite given as an argument contributes its checks
full_suite(kwargs, first_id) ==
    LET me == model_evaluation(kwargs, first_id)
        ttv == train_test_validation(kwargs, first_id + Len(me.suite.checks))
        di == data_integrity(kwargs, first_id + Len(me.suite.checks)
                                              + Len(ttv.suite.checks))
        suite == [name |-> "Full Suite",
                  checks |-> me.suite.checks \o ttv.suite.checks \o di.suite.checks]
    IN [events |-> me.events \o ttv.events \o di.events \o Built(suite).events,
        suite |-> suite]

InitSuite ==
    /\ CondIdle
    /\ RunIdle
    /\ SuiteIdle

\* a call fn(**kwargs) that produced out
Called(fn, kwargs, out) ==
    /\ Len(returned) < MaxCalls
    /\ log' = log \o out.events
    /\ returned' = Append(returned, [fn |-> fn, kwargs |-> kwargs, suite |-> out.suite])
    /\ next_id' = next_id + Len(out.suite.checks)
    /\ UNCHANGED condVars
    /\ UNCHANGED runVars

CallSingleDatasetIntegrity(kwargs) ==
    Called("single_dataset_integrity", kwargs, single_dataset_integrity(kwargs, next_id))

CallDataIntegrity(kwargs) ==
    Called("data_integrity", kwargs, data_integrity(kwargs, next_id))

CallTrainTestLeakage(kwargs) ==
    Called("train_test_leakage", kwargs, train_test_leakage(kwargs, next_id))

CallTrainTestValidation(kwargs) ==
    Called("train_test_validation", kwargs, train_test_validation(kwargs, next_id))

CallModelEvaluation(kwargs) ==
    Called("model_evaluation", kwargs, model_evaluation(kwargs, next_id))

CallFullSuite(kwargs) ==
    Called("full_suite", kwargs, full_suite(kwargs, next_id))

NextSuite ==
    \/ \E kw \in Kwargs : CallSingleDatasetIntegrity(kw)
    \/ \E kw \in Kwargs : CallDataIntegrity(kw)
    \/ \E kw \in Kwargs : CallTrainTestLeakage(kw)
    \/ \E kw \in Kwargs : CallTrainTestValidation(kw)
    \/ \E kw \in Kwargs : CallModelEvaluation(kw)
    \/ \E kw \in Kwargs : CallFullSuite(kw)

SpecSuite == InitSuite /\ [][NextSuite]_vars

(***************************************************************************)
(* Properties of the condition (checked under Spec)                        *)
(***************************************************************************)
\* the (feature, dict) entry of a feature in a result value
EntryOf(res, f) ==
    res.feature_segments[CHOOSE i \in 1..Len(res.feature_segments) :
                            res.feature_segments[i].feature = f]

TwoSegmentFeatures(res) ==
    {res.feature_segments[i].feature : i \in
        {j \in 1..Len(res.feature_segments) :
            DictLen(res.feature_segments[j].segments) = 2}}

\* |score1 - score2| / max(|score1|, |score2|)
RelativeGap(segs) ==
    LET s1 == segs["segment1"].score
        s2 == segs["segment2"].score
    IN Ratio(Abs(s1 - s2), Max(Abs(s1), Abs(s2)))

\* the relative gap is defined and strictly greater than t
GapExceeds(segs, t) ==
    LET g == RelativeGap(segs) IN g.den > 0 /\ RatioGt(g, t)

ListedFeatures(out) == {out.sorted_fails[i][1] : i \in 1..Len(out.sorted_fails)}

\* C1: for every feature with two segments, the ratio the condition compares
\* with max_ratio_change equals |score1 - score2| / max(|score1|, |score2|),
\* whatever the signs of the scores.
C1_RatioIsRelativeGap ==
    \A i \in 1..Len(cond_out.compared) :
        LET d == cond_out.compared[i][2]
            g == RelativeGap(EntryOf(result, cond_out.compared[i][1]).segments)
        IN g.den > 0 => (d.den > 0 /\ d.num * g.den = g.num * d.den)

\* C2: the condition returns PASS exactly when no feature with two segments
\* has a relative score gap strictly greater than max_ratio_change; otherwise
\* it returns a non-pass result listing exactly the features whose gap
\* exceeds the threshold, never a feature with fewer than two segments.
C2_FlagsExactlyGapsAboveThreshold ==
    cond_out.status # "none" =>
        LET over == {f \in TwoSegmentFeatures(result) :
                        GapExceeds(EntryOf(result, f).segments,
                                   cond_out.max_ratio_change)}
        IN /\ cond_out.status = "returned"
           /\ (cond_out.category = "PASS") <=> (over = {})
           /\ cond_out.category # "PASS" =>
                 /\ ListedFeatures(cond_out) = over
                 /\ Len(cond_out.sorted_fails) = Cardinality(over)

\* C3: when the condition reports more than one failing feature, the
\* features are listed in ascending order of their computed numeric gap.
C3_ReportAscendingByGap ==
    \A i, j \in 1..Len(cond_out.sorted_fails) :
        i < j =>
            ~RatioGt(performance_diff(EntryOf(result, cond_out.sorted_fails[i][1]).segments),
                     performance_diff(EntryOf(result, cond_out.sorted_fails[j][1]).segments))

\* C11: the condition is total: on every result value with numeric segment
\* scores, a zero score or a zero larger score included, a run of the
\* condition ends with a PASS or a non-pass ConditionResult and never raises
\* (RunCondition never assigns the result value it was given).
C11_ConditionNeverRaises ==
    cond_out.status # "none" =>
        /\ cond_out.status = "returned"
        /\ cond_out.category \in {"PASS", "WARN"}

(***************************************************************************)
(* Properties of __init__ and run_logic (checked under SpecRun)            *)
(***************************************************************************)
StagesAfterLabelCheck ==
    {"sample_train", "sample_test", "fit_label_encoder", "score_train",
     "score_test", "model_error_contribution", "error_model_display",
     "check_result"}

NoDuplicates(seq) == \A i, j \in 1..Len(seq) : seq[i] = seq[j] => i = j

\* the stage completed (it ran and did not raise)
Completed(stage) ==
    /\ stage \in Range(trace)
    /\ ~(ret.kind = "error" /\ ret.at = stage)

\* C4: a run of run_logic on a context whose train or test dataset has no
\* labels ends in a data-validity error, raised before any sampling, scoring
\* or error-model stage executes, and no stage is run twice.
C4_AbsentLabelsFailFirst ==
    (pc # "idle" /\ (~context.train.has_label \/ ~context.test.has_label)) =>
        /\ pc \in {"assert_label", "done"}
        /\ Range(trace) \cap StagesAfterLabelCheck = {}
        /\ NoDuplicates(trace)
        /\ pc = "done" =>
              /\ ret.kind = "error"
              /\ ret.error = "DataError"
              /\ ret.at = "assert_label"

\* C5: constructing the check with an alternative_scorer that supplies more
\* than one scorer fails in the constructor: no check object is produced.
C5_SeveralScorersFailConstruction ==
    (self.state # "unbuilt" /\ ScorersSupplied(self.alternative_scorer) > 1) =>
        self.state = "ctor_error"

\* the error model was fitted with a held-out quality below the minimum
LowFit ==
    /\ Completed("model_error_contribution")
    /\ locals.fit_score < self.min_error_model_score

\* C6: when the error model's held-out fit quality is below
\* min_error_model_score the run does not fail and returns a CheckResult
\* whose display is None, with the value; in every run the display is None
\* or a list made of the headnote followed by at least one display block.
C6_LowFitGivesNoDisplay ==
    /\ ret.kind = "CheckResult" =>
          \/ ret.display.none
          \/ /\ Len(ret.display.items) >= 2
             /\ ret.display.items[1] = Headnote
             /\ \A i \in 2..Len(ret.display.items) : ret.display.items[i] # Headnote
    /\ LowFit => ret.kind # "error"
    /\ (LowFit /\ pc = "done") =>
          /\ ret.kind = "CheckResult"
          /\ ret.display.none
          /\ ret.value = locals.value

C6_Witness ==
    /\ LowFit
    /\ pc = "done"
    /\ ret.kind = "CheckResult"
    /\ ret.display.none

\* the stages the pipeline is made of, in the order they are to run
PipelineOrder ==
    <<"score_train", "score_test", "model_error_contribution",
      "error_model_display", "check_result">>

IsPrefix(a, b) == Len(a) <= Len(b) /\ \A i \in 1..Len(a) : a[i] = b[i]

\* C9: the stages run in the order error scoring (train, then test),
\* error-contribution modelling, segment display, result construction, each
\* once; a stage that fails is the last one to run, and the run then ends in
\* an error without a CheckResult; a CheckResult is returned only after
\* every stage ran.
C9_StagesInOrder ==
    /\ IsPrefix(SelectSeq(trace, LAMBDA st : st \in Range(PipelineOrder)),
                PipelineOrder)
    /\ NoDuplicates(trace)
    /\ ret.kind = "error" =>
          /\ pc = "done"
          /\ trace # <<>>
          /\ trace[Len(trace)] = ret.at
          /\ ret.value = <<>>
          /\ ret.display.none
    /\ ret.kind = "CheckResult" =>
          /\ pc = "done"
          /\ \A i \in 1..Len(PipelineOrder) : PipelineOrder[i] \in Range(trace)
    /\ pc = "done" => ret.kind \in {"error", "CheckResult"}
    /\ pc # "done" => ret.kind = "none"

C9_Witness ==
    /\ pc = "done"
    /\ ret.kind = "error"
    /\ ret.at = "model_error_contribution"
    /\ "score_test" \in Range(trace)

\* the rows of a sampled dataset are rows of the dataset, each with a label
RetainedRowsLabelled(sampled, ds) ==
    \A i \in 1..Len(sampled.rows) :
        /\ sampled.rows[i].id \in 1..Len(ds.labels)
        /\ sampled.rows[i].label = ds.labels[sampled.rows[i].id]
        /\ ds.has_label => sampled.rows[i].label # NA

\* one error value for every row of the sampled dataset
OneErrorPerRow(scores, sampled) ==
    /\ Len(scores) = Len(sampled.rows)
    /\ \A i \in 1..Len(scores) : scores[i].id = sampled.rows[i].id

\* C10: rows with a missing label are removed from the train and from the
\* test dataset before the per-sample error is computed, they never cause an
\* error, and scoring yields exactly one error value per retained row.
C10_MissingLabelRowsDropped ==
    /\ Completed("sample_train") =>
          RetainedRowsLabelled(locals.train_dataset, context.train)
    /\ Completed("sample_test") =>
          RetainedRowsLabelled(locals.test_dataset, context.test)
    /\ ret.kind = "error" => ret.at \notin {"sample_train", "sample_test"}
    /\ (ret.kind = "error" /\ ret.error = "LabelError") =>
          \/ ~context.train.has_label
          \/ ~context.test.has_label
          \/ \E i \in 1..Len(locals.test_dataset.rows) :
                /\ locals.test_dataset.rows[i].label # NA
                /\ locals.test_dataset.rows[i].label \notin locals.le_classes
    /\ Completed("score_train") =>
          /\ OneErrorPerRow(locals.train_scores, locals.train_dataset)
          /\ \A i \in 1..Len(locals.train_scores) :
                locals.train_scores[i].error = "finite"
    /\ Completed("score_test") =>
          /\ OneErrorPerRow(locals.test_scores, locals.test_dataset)
          /\ \A i \in 1..Len(locals.test_scores) :
                locals.test_scores[i].error = "finite"

C10_Witness ==
    /\ pc = "done"
    /\ ret.kind = "CheckResult"
    /\ \E i \in 1..Len(context.train.labels) : context.train.labels[i] = NA
    /\ \E i \in 1..Len(context.test.labels) : context.test.labels[i] = NA
    /\ Len(locals.train_scores) >= 1
    /\ Len(locals.test_scores) >= 1
    /\ Len(locals.test_scores) < Len(context.test.labels)

(***************************************************************************)
(* Properties of the suites (checked under SpecSuite)                      *)
(***************************************************************************)
ChecksWithoutCondition ==
    {"OutlierSampleDetection", "ConfusionMatrixReport", "CalibrationScore"}

\* C7: every check of a returned suite has at least one condition.
C7_EveryCheckHasCondition ==
    \A i \in 1..Len(returned) :
        \A k \in 1..Len(returned[i].suite.checks) :
            Len(returned[i].suite.checks[k].conditions) >= 1

\* C7 (amended): every check of a returned suite other than
\* OutlierSampleDetection, ConfusionMatrixReport and CalibrationScore has at
\* least one condition.
C7_ChecksHaveConditionExceptThree ==
    \A i \in 1..Len(returned) :
        \A k \in 1..Len(returned[i].suite.checks) :
            returned[i].suite.checks[k].cls \notin ChecksWithoutCondition
                => Len(returned[i].suite.checks[k].conditions) >= 1

C7_Witness ==
    \E i \in 1..Len(returned) :
        /\ returned[i].fn = "full_suite"
        /\ Len(returned[i].suite.checks) = 35

\* a suite without the identities of its checks
Shape(suite) ==
    [name |-> suite.name,
     checks |-> [k \in 1..Len(suite.checks) |->
                    [cls |-> suite.checks[k].cls,
                     kwargs |-> suite.checks[k].kwargs,
                     conditions |-> suite.checks[k].conditions]]]

Ids(suite) == {suite.checks[k].id : k \in 1..Len(suite.checks)}

ReplacedBy(fn) ==
    IF fn = "single_dataset_integrity" THEN "data_integrity"
    ELSE IF fn = "train_test_leakage" THEN "train_test_validation"
    ELSE "-"

SuiteNameOf(fn) ==
    IF fn = "data_integrity" THEN "Data Integrity Suite"
    ELSE "Train Test Validation Suite"

Deprecated == {"single_dataset_integrity", "train_test_leakage"}

Count(seq, Test(_)) == Cardinality({i \in 1..Len(seq) : Test(seq[i])})

\* C8: a deprecated suite function returns a suite with the name, checks,
\* order and conditions of the function that replaces it, for the same
\* keyword arguments; it emits exactly one DeprecationWarning, before the
\* suite is built; every call returns new check objects.
C8_DeprecatedSuitesAgree ==
    /\ \A i, j \in 1..Len(returned) :
          (/\ returned[j].fn = ReplacedBy(returned[i].fn)
           /\ returned[j].kwargs = returned[i].kwargs)
          => Shape(returned[i].suite) = Shape(returned[j].suite)
    /\ \A fn \in Deprecated :
          /\ Count(log, LAMBDA e : e = DeprecationWarning(fn))
                = Count(returned, LAMBDA r : r.fn = fn)
          /\ \A p \in 1..Len(log) :
                log[p] = DeprecationWarning(fn) =>
                    /\ p < Len(log)
                    /\ log[p + 1] = [event |-> "Suite",
                                     what |-> SuiteNameOf(ReplacedBy(fn))]
    /\ \A i \in 1..Len(returned) :
          /\ Cardinality(Ids(returned[i].suite)) = Len(returned[i].suite.checks)
          /\ \A j \in 1..Len(returned) :
                i # j => Ids(returned[i].suite) \cap Ids(returned[j].suite) = {}

C8_Witness ==
    /\ Len(returned) = 2
    /\ returned[1].fn = "data_integrity"
    /\ returned[2].fn = "single_dataset_integrity"
    /\ returned[1].kwargs = returned[2].kwargs
    /\ returned[1].kwargs # <<>>
    /\ Len(log) = 3

====
